---------------------------- MODULE Spec2Model ----------------------------
(***************************************************************************)
(* A model of rpy2/situation.py: the probes that locate R's home           *)
(* directory, the fetching and parsing of `R CMD config` output, and the   *)
(* CExtensionOptions accumulator.                                          *)
(*                                                                         *)
(* Python strings are sequences of one-character strings, so that          *)
(* startswith, split, strip and join are computed character by character.  *)
(* An optional string is a record: Str(s) or None.  The result of a call   *)
(* is a record: Return(v) or Raise(exception, message).                    *)
(***************************************************************************)
EXTENDS Integers, Sequences, FiniteSets, TLC

VARIABLES
    op,      \* the operation called last ("init" before any call)
    inp,     \* its arguments and what the environment answered
    ret,     \* its outcome
    c_ext,   \* the CExtensionOptions object
    prev,    \* c_ext as it was before the last call
    hist,    \* the -I lists handed to add_include so far, concatenated
    ncalls   \* number of add_include / add_lib calls made

vars == <<op, inp, ret, c_ext, prev, hist, ncalls>>

-----------------------------------------------------------------------------
(* Bounds *)

\* Subprocess output is a concatenation of at most MaxPieces pieces.
MaxPieces == 3
\* add_include / add_lib calls on one CExtensionOptions object.
MaxCalls == 3
\* `R CMD config` output is a concatenation of at most MaxFlagPieces pieces.
MaxFlagPieces == 3

-----------------------------------------------------------------------------
(* Python values *)

None == [tag |-> "None", s |-> <<>>]
Str(s) == [tag |-> "str", s |-> s]

\* Python truth value of an optional string: None and '' are false.
Truthy(v) == v.tag = "str" /\ v.s # <<>>

Return(v) == [kind |-> "return", value |-> v, exc |-> "", msg |-> <<>>]
Raise(e, m) == [kind |-> "raise", value |-> None, exc |-> e, msg |-> m]

WARNING == <<"W", "A", "R", "N", "I", "N", "G">>

\* str.startswith
StartsWith(s, p) == Len(s) >= Len(p) /\ SubSeq(s, 1, Len(p)) = p

\* The characters str.strip() removes (of those the model's alphabet has).
Whitespace == {" ", "\t", "\n", "\r", "\f"}

RECURSIVE LStrip(_)
LStrip(s) == IF s # <<>> /\ Head(s) \in Whitespace THEN LStrip(Tail(s)) ELSE s

RECURSIVE RStrip(_)
RStrip(s) ==
    IF s # <<>> /\ s[Len(s)] \in Whitespace
    THEN RStrip(SubSeq(s, 1, Len(s) - 1))
    ELSE s

\* str.strip()
Strip(s) == RStrip(LStrip(s))

\* str.split(sep) for a non-empty sep: always at least one element.
RECURSIVE SplitFrom(_, _, _)
SplitFrom(s, sep, cur) ==
    IF s = <<>> THEN <<cur>>
    ELSE IF StartsWith(s, sep)
         THEN <<cur>> \o SplitFrom(SubSeq(s, Len(sep) + 1, Len(s)), sep, <<>>)
         ELSE SplitFrom(Tail(s), sep, Append(cur, Head(s)))

Split(s, sep) == SplitFrom(s, sep, <<>>)

\* sep.join(parts)
RECURSIVE Join(_, _)
Join(parts, sep) ==
    IF parts = <<>> THEN <<>>
    ELSE IF Len(parts) = 1 THEN parts[1]
    ELSE parts[1] \o sep \o Join(Tail(parts), sep)

\* bytes.decode('ascii', 'ignore'): bytes outside ASCII are dropped.
NonAscii == {"\\xe9"}
DecodeAsciiIgnore(s) == SelectSeq(s, LAMBDA c : c \notin NonAscii)

\* universal_newlines=True: "\r\n" and a lone "\r" are read as "\n".
RECURSIVE UniversalNewlines(_)
UniversalNewlines(s) ==
    IF s = <<>> THEN <<>>
    ELSE IF Head(s) = "\r"
         THEN IF Len(s) >= 2 /\ s[2] = "\n"
              THEN <<"\n">> \o UniversalNewlines(SubSeq(s, 3, Len(s)))
              ELSE <<"\n">> \o UniversalNewlines(Tail(s))
         ELSE <<Head(s)>> \o UniversalNewlines(Tail(s))

-----------------------------------------------------------------------------
(* The platform *)

\* sys.platform
Platforms == {"linux", "darwin", "win32"}

\* os.linesep
linesep(platform) == IF platform = "win32" THEN <<"\r", "\n">> ELSE <<"\n">>

\* os.sep
pathsep(platform) == IF platform = "win32" THEN "\\" ELSE "/"

\* os.path.join(a, b) for a relative b without a drive.
PathJoin(a, b, sep) ==
    IF a = <<>> \/ a[Len(a)] = sep \/ (sep = "\\" /\ a[Len(a)] = "/")
    THEN a \o b
    ELSE a \o <<sep>> \o b

-----------------------------------------------------------------------------
(* What a child process can do: it cannot be launched (FileNotFoundError,  *)
(* WindowsError), it exits with non-zero status (check_output raises       *)
(* CalledProcessError), or it exits with 0 having written `out`.           *)

Pieces == {WARNING, <<"/">>, <<" ">>, <<"\n">>, <<"\r">>}

RECURSIVE TextsUpTo(_, _)
TextsUpTo(pieces, n) ==
    IF n = 0 THEN {<<>>}
    ELSE LET S == TextsUpTo(pieces, n - 1)
         IN  S \cup {s \o p : s \in S, p \in pieces}

ProcOk(out) == [kind |-> "ok", out |-> out]
ProcLaunchFailure == [kind |-> "launch", out |-> <<>>]
ProcNonZeroExit == [kind |-> "nonzero", out |-> <<>>]

ProcOutcomes ==
    {ProcLaunchFailure, ProcNonZeroExit}
        \cup {ProcOk(t) : t \in TextsUpTo(Pieces, MaxPieces)}

\* subprocess.check_output(cmd): the captured output, or the exception.
check_output(proc, universal_newlines) ==
    CASE proc.kind = "launch" -> Raise("FileNotFoundError", <<>>)
      [] proc.kind = "nonzero" -> Raise("CalledProcessError", <<>>)
      [] OTHER -> Return(IF universal_newlines
                         THEN UniversalNewlines(proc.out)
                         ELSE proc.out)

-----------------------------------------------------------------------------
(* The probes *)

\* A variant that demotes only the launch failure to None.
r_version_from_subprocess_Narrow(proc, platform) ==
    LET tmp == check_output(proc, FALSE) IN
    IF tmp.kind = "raise"
    THEN IF tmp.exc = "FileNotFoundError" THEN Return(None) ELSE tmp
    ELSE LET r_version == Split(DecodeAsciiIgnore(tmp.value), linesep(platform)) IN
         IF StartsWith(r_version[1], WARNING)
         THEN IF Len(r_version) >= 2
              THEN Return(Str(r_version[2]))
              ELSE Raise("IndexError", <<>>)
         ELSE Return(Str(Strip(r_version[1])))

r_version_from_subprocess(proc, platform) ==
    LET tmp == check_output(proc, FALSE) IN
    IF tmp.kind = "raise"
    THEN Return(None)                      \* except Exception
    ELSE LET r_version == Split(DecodeAsciiIgnore(tmp.value), linesep(platform)) IN
         IF StartsWith(r_version[1], WARNING)
         THEN IF Len(r_version) >= 2
              THEN Return(Str(r_version[2]))
              ELSE Raise("IndexError", <<>>)
         ELSE Return(Str(Strip(r_version[1])))

r_home_from_subprocess(proc, platform) ==
    LET tmp == check_output(proc, TRUE) IN
    IF tmp.kind = "raise"
    THEN Return(None)                      \* except Exception
    ELSE LET r_home == Split(tmp.value, linesep(platform)) IN
         IF StartsWith(r_home[1], WARNING)
         THEN IF Len(r_home) >= 2
              THEN Return(Str(r_home[2]))
              ELSE Raise("IndexError", <<>>)
         ELSE Return(Str(Strip(r_home[1])))

\* The registry: the key and value are there, or the lookup raises.
RegFound(v) == [kind |-> "ok", value |-> v]
RegMissing == [kind |-> "missing", value |-> <<>>]
RegOutcomes == {RegMissing, RegFound(<<>>), RegFound(<<"C", ":", "\\", "R">>)}

\* The encode() branch for Python 2 is not modelled: the module cannot be
\* imported there (it uses annotations).
r_home_from_registry(reg) ==
    IF reg.kind = "ok" THEN Str(reg.value) ELSE None

\* The message of the ValueError is the format string itself: it is never
\* applied to `system`.
get_rlib_path(r_home, system) ==
    IF system = "Linux"
    THEN Return(Str(PathJoin(PathJoin(r_home, <<"lib">>, "/"), <<"libR.so">>, "/")))
    ELSE IF system = "Darwin"
    THEN Return(Str(PathJoin(PathJoin(r_home, <<"lib">>, "/"), <<"libR.dylib">>, "/")))
    ELSE Raise("ValueError", <<"The system \"", "%s", "\" is not supported.">>)

\* A variant without the sys.platform test before the registry lookup.
get_r_home_AnyPlatform(env, platform, proc, reg) ==
    LET sub == r_home_from_subprocess(proc, platform) IN
    IF Truthy(env)
    THEN [out |-> Return(env), calls |-> <<>>]
    ELSE IF sub.kind = "raise"
    THEN [out |-> sub, calls |-> <<"subprocess">>]
    ELSE IF ~Truthy(sub.value)
    THEN [out |-> Return(r_home_from_registry(reg)),
          calls |-> <<"subprocess", "registry">>]
    ELSE [out |-> Return(sub.value), calls |-> <<"subprocess">>]

\* out: what the call returns or raises; calls: the strategies it invoked.
get_r_home(env, platform, proc, reg) ==
    LET sub == r_home_from_subprocess(proc, platform) IN
    IF Truthy(env)
    THEN [out |-> Return(env), calls |-> <<>>]
    ELSE IF sub.kind = "raise"
    THEN [out |-> sub, calls |-> <<"subprocess">>]
    ELSE IF ~Truthy(sub.value) /\ platform = "win32"
    THEN [out |-> Return(r_home_from_registry(reg)),
          calls |-> <<"subprocess", "registry">>]
    ELSE [out |-> Return(sub.value), calls |-> <<"subprocess">>]

\* r_home is None (os.path.join raises TypeError) or a string.
get_r_exec(r_home, platform, is64) ==
    IF r_home.tag = "None" THEN Raise("TypeError", <<>>)
    ELSE LET sep == pathsep(platform)
             bin == PathJoin(r_home.s, <<"b", "i", "n">>, sep)
         IN  IF platform = "win32" /\ is64
             THEN Return(PathJoin(PathJoin(bin, <<"x", "6", "4">>, sep), <<"R">>, sep))
             ELSE Return(PathJoin(bin, <<"R">>, sep))

\* out: the returned lines, or the exception; warned: warnings.warn calls
\* made.  The command line printed before the call is left out.  The
\* allow_empty parameter is never read by the code.
_get_r_cmd_config(r_home, about, allow_empty, platform, is64, proc) ==
    LET r_exec == get_r_exec(r_home, platform, is64) IN
    IF r_exec.kind = "raise" THEN [out |-> r_exec, warned |-> 0]
    ELSE LET tmp == check_output(proc, TRUE) IN
         IF tmp.kind = "raise" THEN [out |-> tmp, warned |-> 0]
         ELSE LET output == Split(tmp.value, linesep(platform)) IN
              IF StartsWith(output[1], WARNING)
              THEN [out |-> Return(Tail(output)), warned |-> 1]
              ELSE [out |-> Return(output), warned |-> 0]

_R_LIBS == {"LAPACK_LIBS", "BLAS_LIBS"}
_R_FLAGS == {"--ldflags", "--cppflags"}

get_r_libs(r_home, libs, platform, is64, proc) ==
    _get_r_cmd_config(r_home, libs, TRUE, platform, is64, proc)

-----------------------------------------------------------------------------
(* shlex.split(s): POSIX mode, whitespace_split, no comment characters.    *)
(* The model's alphabet has no backslash, so the escape states are left    *)
(* out; quotes and whitespace are handled as read_token does.              *)

ShlexWhitespace == {" ", "\t", "\r", "\n"}
ShlexQuotes == {"'", "\""}

\* state: " " between tokens, "a" inside a word, or the open quote.
\* A token is given out when it is non-empty or was quoted.
RECURSIVE ShlexFrom(_, _, _, _, _)
ShlexFrom(s, state, token, quoted, acc) ==
    LET emit == IF token # <<>> \/ quoted THEN Append(acc, token) ELSE acc IN
    IF s = <<>>
    THEN IF state \in ShlexQuotes
         THEN Raise("ValueError", <<"No closing quotation">>)
         ELSE Return(emit)
    ELSE LET c == Head(s)
             rest == Tail(s)
         IN  IF state \in ShlexQuotes
             THEN IF c = state
                  THEN ShlexFrom(rest, "a", token, TRUE, acc)
                  ELSE ShlexFrom(rest, state, Append(token, c), TRUE, acc)
             ELSE IF c \in ShlexWhitespace
                  THEN ShlexFrom(rest, " ", <<>>, FALSE, emit)
                  ELSE IF c \in ShlexQuotes
                       THEN ShlexFrom(rest, c, token, quoted, acc)
                       ELSE ShlexFrom(rest, "a", Append(token, c), quoted, acc)

shlex_split(s) == ShlexFrom(s, " ", <<>>, FALSE, <<>>)

-----------------------------------------------------------------------------
(* argparse, for the parser get_r_flags builds: -I, -L, -l with            *)
(* action='append', and the -h/--help action ArgumentParser() adds itself  *)
(* (add_help defaults to True).  Digits are not in the alphabet, so the    *)
(* negative-number rule of _parse_optional never applies.                  *)

\* A namespace attribute, or an option's value: None, a str, or a list.
NoneList == [tag |-> "None", v |-> <<>>]
PyList(v) == [tag |-> "list", v |-> v]

\* _AppendAction: the attribute's list (a new one when it is None) plus x.
AppendTo(attr, x) ==
    IF attr.tag = "None" THEN PyList(<<x>>) ELSE PyList(Append(attr.v, x))

DashDash == <<"-", "-">>
HelpLong == <<"-", "-", "h", "e", "l", "p">>
AppendOptions == {<<"-", "I">>, <<"-", "L">>, <<"-", "l">>}
OptionStrings == AppendOptions \cup {<<"-", "h">>, HelpLong}

\* The action an option string selects: "I", "L", "l" or "help".
ActionOf(o) == IF o \in AppendOptions THEN o[2] ELSE "help"

HasChar(s, c) == \E i \in 1..Len(s) : s[i] = c
FirstIndex(s, c) == CHOOSE i \in 1..Len(s) : s[i] = c /\ \A j \in 1..(i - 1) : s[j] # c
\* s.split(c, 1), for an s that contains c
Before(s, c) == SubSeq(s, 1, FirstIndex(s, c) - 1)
After(s, c) == SubSeq(s, FirstIndex(s, c) + 1, Len(s))

Positional == [pos |-> TRUE, action |-> "", long |-> FALSE, explicit |-> None]
Optional(a, long, e) == [pos |-> FALSE, action |-> a, long |-> long, explicit |-> e]

\* ArgumentParser._get_option_tuples for a token of two or more characters
\* that starts with "-": the set of interpretations.
_get_option_tuples(t) ==
    IF t[2] = "-"
    THEN LET option_prefix == IF HasChar(t, "=") THEN Before(t, "=") ELSE t
             explicit_arg == IF HasChar(t, "=") THEN Str(After(t, "=")) ELSE None
         IN  {Optional(ActionOf(o), o = HelpLong, explicit_arg) :
                 o \in {x \in OptionStrings : StartsWith(x, option_prefix)}}
    ELSE {Optional(ActionOf(o), FALSE, Str(SubSeq(t, 3, Len(t)))) :
             o \in {x \in OptionStrings : x = SubSeq(t, 1, 2)}}
         \cup {Optional(ActionOf(o), o = HelpLong, None) :
                 o \in {x \in OptionStrings : x # SubSeq(t, 1, 2) /\ StartsWith(x, t)}}

\* ArgumentParser._parse_optional: a positional, a known option (with the
\* argument written in the same token, if any), or an unknown option.
_parse_optional(t) ==
    IF t = <<>> THEN Positional
    ELSE IF t[1] # "-" THEN Positional
    ELSE IF t \in OptionStrings THEN Optional(ActionOf(t), t = HelpLong, None)
    ELSE IF Len(t) = 1 THEN Positional
    ELSE IF HasChar(t, "=") /\ Before(t, "=") \in OptionStrings
    THEN Optional(ActionOf(Before(t, "=")), Before(t, "=") = HelpLong, Str(After(t, "=")))
    ELSE LET option_tuples == _get_option_tuples(t) IN
         IF Cardinality(option_tuples) > 1
         THEN Optional("ambiguous", FALSE, None)
         ELSE IF Cardinality(option_tuples) = 1
         THEN CHOOSE o \in option_tuples : TRUE
         ELSE IF HasChar(t, " ") THEN Positional
         ELSE Optional("unknown", FALSE, None)

\* The loop of consume_optional over a token such as -hIa: an option that
\* takes no argument and is followed by more characters is read as a series
\* of single-dash flags.  helps counts the help actions collected.
RECURSIVE FlagChain(_, _, _, _)
FlagChain(action, long, explicit, helps) ==
    IF explicit.tag = "None" \/ action # "help"
    THEN [err |-> FALSE, action |-> action, explicit |-> explicit, helps |-> helps]
    ELSE IF ~long /\ explicit.s # <<>>
              /\ <<"-", explicit.s[1]>> \in OptionStrings
         THEN FlagChain(ActionOf(<<"-", explicit.s[1]>>), FALSE,
                        IF Len(explicit.s) > 1 THEN Str(Tail(explicit.s)) ELSE None,
                        helps + 1)
         ELSE [err |-> TRUE, action |-> action, explicit |-> explicit, helps |-> helps]

\* _get_values for one argument string: the first '--' is removed from the
\* argument list, so the argument '--' (as in -I--) leaves the empty list.
OptionValue(a) == IF a = DashDash THEN PyList(<<>>) ELSE Str(a)

EmptyNamespace == [I |-> NoneList, L |-> NoneList, l |-> NoneList]

Store(ns, action, x) ==
    [ns EXCEPT ![action] = AppendTo(ns[action], OptionValue(x))]

Exit(code) == Raise("SystemExit", <<code>>)

\* _parse_known_args from token i on.  afterDD: a '--' token came before,
\* so every token is an argument.  With no positional declared, arguments
\* go to extras.
RECURSIVE ParseFrom(_, _, _, _, _)
ParseFrom(toks, i, afterDD, ns, extras) ==
    IF i > Len(toks) THEN Return([args |-> ns, unknown |-> extras])
    ELSE LET t == toks[i]
             o == _parse_optional(t)
             nextIsArg == /\ i + 1 <= Len(toks)
                          /\ toks[i + 1] # DashDash
                          /\ _parse_optional(toks[i + 1]).pos
         IN  IF afterDD \/ t = DashDash
             THEN ParseFrom(toks, i + 1, TRUE, ns, Append(extras, t))
             ELSE IF o.pos \/ o.action = "unknown"
             THEN ParseFrom(toks, i + 1, FALSE, ns, Append(extras, t))
             ELSE LET c == FlagChain(o.action, o.long, o.explicit, 0) IN
                  IF c.err THEN Exit(2)
                  ELSE IF c.action = "help" THEN Exit(0)
                  ELSE IF c.explicit.tag = "str"
                  THEN IF c.helps > 0 THEN Exit(0)
                       ELSE ParseFrom(toks, i + 1, FALSE,
                                      Store(ns, c.action, c.explicit.s), extras)
                  ELSE IF ~nextIsArg THEN Exit(2)
                  ELSE IF c.helps > 0 THEN Exit(0)
                  ELSE ParseFrom(toks, i + 2, FALSE,
                                 Store(ns, c.action, toks[i + 1]), extras)

\* parser.parse_known_args(toks): an ambiguous option is reported while the
\* tokens are classified, before any is consumed.
parse_known_args(toks) ==
    IF \E i \in 1..Len(toks) :
          /\ \A j \in 1..(i - 1) : toks[j] # DashDash
          /\ toks[i] # DashDash
          /\ _parse_optional(toks[i]).action = "ambiguous"
    THEN Exit(2)
    ELSE ParseFrom(toks, 1, FALSE, EmptyNamespace, <<>>)

\* out: (parsed_args, unknown_args) or the exception; warned as above.
get_r_flags(r_home, flags, platform, is64, proc) ==
    IF flags \notin _R_FLAGS
    THEN [out |-> Raise("AssertionError", <<>>), warned |-> 0]
    ELSE LET cfg == _get_r_cmd_config(r_home, flags, FALSE, platform, is64, proc) IN
         IF cfg.out.kind = "raise" THEN cfg
         ELSE LET res == shlex_split(Join(cfg.out.value, <<" ">>)) IN
              IF res.kind = "raise"
              THEN [out |-> res, warned |-> cfg.warned]
              ELSE [out |-> parse_known_args(res.value), warned |-> cfg.warned]

-----------------------------------------------------------------------------
(* CExtensionOptions *)

\* CExtensionOptions.__init__
NewCExtensionOptions ==
    [extra_link_args |-> <<>>, extra_compile_args |-> <<>>,
     include_dirs |-> <<>>, libraries |-> <<>>, library_dirs |-> <<>>]

Fields ==
    {"extra_link_args", "extra_compile_args", "include_dirs", "libraries",
     "library_dirs"}

\* list.extend
Extend(self, field, items) == [self EXCEPT ![field] = @ \o items]

\* A variant of add_include that skips directories already present.
RECURSIVE Dedup(_, _)
Dedup(have, items) ==
    IF items = <<>> THEN <<>>
    ELSE IF \E i \in 1..Len(have) : have[i] = Head(items)
         THEN Dedup(have, Tail(items))
         ELSE <<Head(items)>> \o Dedup(Append(have, Head(items)), Tail(items))

add_include_Dedup(self, args, unknown) ==
    IF args.I.tag = "None"
    THEN [obj |-> Extend(self, "extra_compile_args", unknown),
          out |-> Return(None), warned |-> 1]
    ELSE [obj |-> Extend(Extend(self, "include_dirs",
                                Dedup(self.include_dirs, args.I.v)),
                         "extra_compile_args", unknown),
          out |-> Return(None), warned |-> 0]

\* obj: the object after the call; out: what the call returns or raises.
add_include(self, args, unknown) ==
    IF args.I.tag = "None"
    THEN [obj |-> Extend(self, "extra_compile_args", unknown),
          out |-> Return(None), warned |-> 1]
    ELSE [obj |-> Extend(Extend(self, "include_dirs", args.I.v),
                         "extra_compile_args", unknown),
          out |-> Return(None), warned |-> 0]

\* [x for x in l if x not in ignore]
NotIgnored(l, ignore) == SelectSeq(l, LAMBDA x : x \notin ignore)

\* A variant that applies the ignore set in both branches.
add_lib_IgnoreAlways(self, args, unknown, ignore) ==
    IF args.L.tag = "None"
    THEN IF args.l.tag = "None"
         THEN [obj |-> Extend(self, "extra_link_args", unknown),
               out |-> Return(None), warned |-> 1]
         ELSE [obj |-> Extend(Extend(self, "libraries",
                                     NotIgnored(args.l.v, ignore)),
                              "extra_link_args", unknown),
               out |-> Return(None), warned |-> 0]
    ELSE LET dirs == Extend(self, "library_dirs", args.L.v) IN
         IF args.l.tag = "None"
         THEN [obj |-> dirs, out |-> Raise("TypeError", <<>>), warned |-> 0]
         ELSE [obj |-> Extend(Extend(dirs, "libraries",
                                     NotIgnored(args.l.v, ignore)),
                              "extra_link_args", unknown),
               out |-> Return(None), warned |-> 0]

\* With -L values and no -l value, libraries.extend(None) raises TypeError
\* after library_dirs was extended and before extra_link_args is.
add_lib(self, args, unknown, ignore) ==
    IF args.L.tag = "None"
    THEN IF args.l.tag = "None"
         THEN [obj |-> Extend(self, "extra_link_args", unknown),
               out |-> Return(None), warned |-> 1]
         ELSE [obj |-> Extend(Extend(self, "libraries",
                                     NotIgnored(args.l.v, ignore)),
                              "extra_link_args", unknown),
               out |-> Return(None), warned |-> 0]
    ELSE LET dirs == Extend(self, "library_dirs", args.L.v) IN
         IF args.l.tag = "None"
         THEN [obj |-> dirs, out |-> Raise("TypeError", <<>>), warned |-> 0]
         ELSE [obj |-> Extend(Extend(dirs, "libraries", args.l.v),
                              "extra_link_args", unknown),
               out |-> Return(None), warned |-> 0]

\* The default of add_lib's ignore parameter: ('R', )
DefaultIgnore == {Str(<<"R">>)}

-----------------------------------------------------------------------------
(* iter_info: the rows are left out but for the section headers; header is *)
(* the last one yielded when the generator finished or raised.  The value  *)
(* of R_HOME is only reported: r_home is assigned again from the           *)
(* subprocess probe and, on win32, from the registry.                      *)

iter_info(platform, is64, proc, vproc, reg, cfg_ld, cfg_cpp) ==
    LET sub == r_home_from_subprocess(proc, platform)
        r_home == IF platform = "win32" THEN r_home_from_registry(reg)
                  ELSE sub.value
        version == r_version_from_subprocess(vproc, platform)
        ld == get_r_flags(r_home, "--ldflags", platform, is64, cfg_ld)
        lib == add_lib(NewCExtensionOptions, ld.out.value.args,
                       ld.out.value.unknown, DefaultIgnore)
        cpp == get_r_flags(r_home, "--cppflags", platform, is64, cfg_cpp)
        inc == add_include(lib.obj, cpp.out.value.args, cpp.out.value.unknown)
        Stop(h, o, c) == [out |-> o, header |-> h, obj |-> c]
    IN  IF sub.kind = "raise"
        THEN Stop("Looking for R's HOME:", sub, NewCExtensionOptions)
        ELSE IF version.kind = "raise"
        THEN Stop("R version:", version, NewCExtensionOptions)
        ELSE IF ld.out.kind = "raise"
        THEN Stop("C extension compilation:", ld.out, NewCExtensionOptions)
        ELSE IF lib.out.kind = "raise"
        THEN Stop("C extension compilation:", lib.out, lib.obj)
        ELSE IF cpp.out.kind = "raise"
        THEN Stop("C extension compilation:", cpp.out, lib.obj)
        ELSE Stop("C extension compilation:", Return(None), inc.obj)

-----------------------------------------------------------------------------
(* Inputs *)

\* os.environ.get('R_HOME'): unset, empty, or a path
EnvValues == {None, Str(<<>>), Str(<<"/", "e">>)}

\* the `system` argument of get_rlib_path (platform.system() names)
Systems == {"Linux", "Darwin", "Windows", "FreeBSD"}
HomePaths == {<<>>, <<"/", "r">>, <<"/", "r", "/">>}

\* the r_home argument of the config functions
HomeArgs == {None, Str(<<"/", "r">>)}

\* `R CMD config` output for the flag parser
FlagPieces ==
    {<<"-", "I">>, <<"-", "L">>, <<"-", "l">>, <<"-", "h">>, <<"a">>,
     <<" ">>, <<"=">>, DashDash, <<"\"">>, <<"\n">>}

FlagOutcomes ==
    {ProcLaunchFailure, ProcNonZeroExit}
        \cup {ProcOk(t) : t \in TextsUpTo(FlagPieces, MaxFlagPieces)}

\* arguments of add_include / add_lib, as get_r_flags returns them
INC1 == Str(<<"/", "u">>)
INC2 == Str(<<"/", "o">>)
LIBDIR == Str(<<"/", "l">>)
LIB_R == Str(<<"R">>)
LIB_P == Str(<<"p">>)
IValues == {NoneList, PyList(<<INC1>>), PyList(<<INC2>>), PyList(<<INC1, INC2>>)}
LValues == {NoneList, PyList(<<LIBDIR>>)}
lValues == {NoneList, PyList(<<LIB_R>>), PyList(<<LIB_R, LIB_P>>), PyList(<<LIB_P, LIB_R>>)}
Unknowns == {<<>>, <<<<"-", "f">>>>}
Ignores == {DefaultIgnore, {}}

\* what the diagnostic run can meet
InfoProcs ==
    {ProcLaunchFailure, ProcNonZeroExit, ProcOk(<<>>), ProcOk(WARNING),
     ProcOk(<<"/", "r", "\n">>)}
InfoVersions == {ProcLaunchFailure, ProcOk(WARNING), ProcOk(<<"R", "\n">>)}
InfoLdflags ==
    {ProcLaunchFailure, ProcOk(<<>>),
     ProcOk(<<"-", "L", "/", " ", "-", "l", "R", "\n">>),
     ProcOk(<<"-", "l", "R", " ", "-", "l", "p", "\n">>),
     ProcOk(<<"-", "L", "/", "\n">>)}
InfoCppflags == {ProcOk(<<"-", "I", "/", "\n">>), ProcOk(<<"-", "x", "\n">>)}

-----------------------------------------------------------------------------
(* The state machine: one action per function, which draws the arguments   *)
(* and the environment's answers and records the outcome.  The functions   *)
(* of the module keep no state between calls, so a behaviour makes one     *)
(* such call; add_include and add_lib act on the same object in turn.      *)

Init ==
    /\ op = "init"
    /\ inp = [platform |-> "linux"]
    /\ ret = [out |-> Return(None)]
    /\ c_ext = NewCExtensionOptions
    /\ prev = NewCExtensionOptions
    /\ hist = <<>>
    /\ ncalls = 0

Options == <<c_ext, prev, hist, ncalls>>

GetRHome ==
    /\ op = "init"
    /\ \E env \in EnvValues, platform \in Platforms, proc \in ProcOutcomes,
       reg \in RegOutcomes :
        /\ op' = "get_r_home"
        /\ inp' = [env |-> env, platform |-> platform, proc |-> proc, reg |-> reg]
        /\ ret' = get_r_home(env, platform, proc, reg)
        /\ UNCHANGED Options

RHomeFromSubprocess ==
    /\ op = "init"
    /\ \E platform \in Platforms, proc \in ProcOutcomes :
        /\ op' = "r_home_from_subprocess"
        /\ inp' = [platform |-> platform, proc |-> proc]
        /\ ret' = [out |-> r_home_from_subprocess(proc, platform)]
        /\ UNCHANGED Options

RVersionFromSubprocess ==
    /\ op = "init"
    /\ \E platform \in Platforms, proc \in ProcOutcomes :
        /\ op' = "r_version_from_subprocess"
        /\ inp' = [platform |-> platform, proc |-> proc]
        /\ ret' = [out |-> r_version_from_subprocess(proc, platform)]
        /\ UNCHANGED Options

GetRlibPath ==
    /\ op = "init"
    /\ \E r_home \in HomePaths, system \in Systems :
        /\ op' = "get_rlib_path"
        /\ inp' = [r_home |-> r_home, system |-> system]
        /\ ret' = [out |-> get_rlib_path(r_home, system)]
        /\ UNCHANGED Options

GetRCmdConfig ==
    /\ op = "init"
    /\ \E r_home \in HomeArgs, about \in {"--ldflags", "LAPACK_LIBS"},
       allow_empty \in BOOLEAN, platform \in Platforms, is64 \in BOOLEAN,
       proc \in ProcOutcomes :
        /\ op' = "_get_r_cmd_config"
        /\ inp' = [r_home |-> r_home, about |-> about, allow_empty |-> allow_empty,
                   platform |-> platform, is64 |-> is64, proc |-> proc]
        /\ ret' = _get_r_cmd_config(r_home, about, allow_empty, platform, is64, proc)
        /\ UNCHANGED Options

GetRFlags ==
    /\ op = "init"
    /\ \E r_home \in HomeArgs, flags \in _R_FLAGS, platform \in Platforms,
       proc \in FlagOutcomes :
        /\ op' = "get_r_flags"
        /\ inp' = [r_home |-> r_home, flags |-> flags, platform |-> platform,
                   is64 |-> FALSE, proc |-> proc]
        /\ ret' = get_r_flags(r_home, flags, platform, FALSE, proc)
        /\ UNCHANGED Options

GetRLibs ==
    /\ op = "init"
    /\ \E r_home \in HomeArgs, libs \in _R_LIBS, platform \in Platforms,
       proc \in {ProcLaunchFailure, ProcOk(<<>>), ProcOk(<<"-", "l", "a", "\n">>)} :
        /\ op' = "get_r_libs"
        /\ inp' = [r_home |-> r_home, libs |-> libs, platform |-> platform,
                   is64 |-> FALSE, proc |-> proc]
        /\ ret' = get_r_libs(r_home, libs, platform, FALSE, proc)
        /\ UNCHANGED Options

AddInclude ==
    /\ ncalls < MaxCalls
    /\ \E I \in IValues, unknown \in Unknowns :
        LET args == [I |-> I, L |-> NoneList, l |-> NoneList]
            r == add_include(c_ext, args, unknown)
        IN  /\ op' = "add_include"
            /\ inp' = [args |-> args, unknown |-> unknown, ignore |-> {}]
            /\ ret' = [out |-> r.out, warned |-> r.warned]
            /\ c_ext' = r.obj
            /\ prev' = c_ext
            /\ hist' = hist \o I.v
            /\ ncalls' = ncalls + 1

AddLib ==
    /\ ncalls < MaxCalls
    /\ \E L \in LValues, l \in lValues, unknown \in Unknowns, ignore \in Ignores :
        LET args == [I |-> NoneList, L |-> L, l |-> l]
            r == add_lib(c_ext, args, unknown, ignore)
        IN  /\ op' = "add_lib"
            /\ inp' = [args |-> args, unknown |-> unknown, ignore |-> ignore]
            /\ ret' = [out |-> r.out, warned |-> r.warned]
            /\ c_ext' = r.obj
            /\ prev' = c_ext
            /\ hist' = hist
            /\ ncalls' = ncalls + 1

\* One diagnostic run: a CExtensionOptions object of its own.
IterInfo ==
    /\ op = "init"
    /\ \E env \in EnvValues, platform \in Platforms, is64 \in BOOLEAN,
       proc \in InfoProcs, vproc \in InfoVersions, reg \in RegOutcomes,
       cfg_ld \in InfoLdflags, cfg_cpp \in InfoCppflags :
        \E r \in {iter_info(platform, is64, proc, vproc, reg, cfg_ld, cfg_cpp)} :
        /\ op' = "iter_info"
        /\ inp' = [env |-> env, platform |-> platform, is64 |-> is64,
                   proc |-> proc, vproc |-> vproc, reg |-> reg,
                   cfg_ld |-> cfg_ld, cfg_cpp |-> cfg_cpp]
        /\ ret' = [out |-> r.out, header |-> r.header]
        /\ c_ext' = r.obj
        /\ prev' = NewCExtensionOptions
        /\ hist' = <<>>
        /\ ncalls' = 0

\* The probes and the config fetch
Next ==
    \/ GetRHome
    \/ RHomeFromSubprocess
    \/ RVersionFromSubprocess
    \/ GetRlibPath
    \/ GetRCmdConfig

Spec == Init /\ [][Next]_vars

\* The flag parser
NextFlags == GetRFlags \/ GetRLibs

SpecFlags == Init /\ [][NextFlags]_vars

\* The accumulator
NextOpts == AddInclude \/ AddLib

SpecOpts == Init /\ [][NextOpts]_vars

\* The diagnostic run
NextInfo == IterInfo \/ GetRHome

SpecInfo == Init /\ [][NextInfo]_vars

-----------------------------------------------------------------------------
(* Properties *)

Range(f) == {f[i] : i \in DOMAIN f}
IsPrefix(a, b) == Len(a) <= Len(b) /\ SubSeq(b, 1, Len(a)) = a
AsSeq(attr) == IF attr.tag = "None" THEN <<>> ELSE attr.v
Falsy(o) == o.kind = "return" /\ ~Truthy(o.value)

\* C1: get_r_home with R_HOME set to a non-empty string returns exactly that
\* string and invokes neither the subprocess probe nor the registry lookup;
\* with R_HOME unset or empty the subprocess probe is tried next; the
\* registry lookup is tried only when the subprocess probe produced nothing
\* and the platform is win32.
C1_ResolutionOrder ==
    op = "get_r_home" =>
        /\ Truthy(inp.env) => ret.out = Return(inp.env) /\ ret.calls = <<>>
        /\ ~Truthy(inp.env) => ret.calls # <<>> /\ ret.calls[1] = "subprocess"
        /\ "registry" \in Range(ret.calls) =>
              /\ ~Truthy(inp.env)
              /\ Falsy(r_home_from_subprocess(inp.proc, inp.platform))
              /\ inp.platform = "win32"
              /\ ret.calls = <<"subprocess", "registry">>

\* C1 witness: on win32, with R_HOME empty and a probe that cannot launch R,
\* the registry was consulted and its value returned.
C1_Witness ==
    /\ op = "get_r_home"
    /\ inp.env = Str(<<>>)
    /\ inp.platform = "win32"
    /\ inp.proc.kind = "launch"
    /\ ret.calls = <<"subprocess", "registry">>
    /\ ret.out.kind = "return"
    /\ Truthy(ret.out.value)

ProbeOps == {"r_version_from_subprocess", "r_home_from_subprocess"}

ConfigLines(text, platform) ==
    LET lines == Split(UniversalNewlines(text), linesep(platform)) IN
    IF StartsWith(lines[1], WARNING) THEN Tail(lines) ELSE lines

\* C3: when the configuration tool's output is empty after a leading warning
\* line is dropped, _get_r_cmd_config fails with EmptyConfigOutput if
\* allow_empty is False and returns the empty sequence if it is True.
C3_EmptyOutputPolicy ==
    (/\ op = "_get_r_cmd_config"
     /\ inp.r_home.tag = "str"
     /\ inp.proc.kind = "ok"
     /\ ConfigLines(inp.proc.out, inp.platform) = <<>>) =>
        IF inp.allow_empty
        THEN ret.out = Return(<<>>)
        ELSE ret.out.kind = "raise" /\ ret.out.exc = "EmptyConfigOutput"

Supported == {"Linux", "Darwin"}
LibName(system) == IF system = "Linux" THEN "libR.so" ELSE "libR.dylib"

\* C4: for a platform other than 'Linux' and 'Darwin' get_rlib_path fails
\* with an error whose message names that platform; for those two it returns
\* home joined with 'lib' and the platform's library filename.
C4_RlibPath ==
    op = "get_rlib_path" =>
        IF inp.system \in Supported
        THEN ret.out = Return(Str(PathJoin(PathJoin(inp.r_home, <<"lib">>, "/"),
                                           <<LibName(inp.system)>>, "/")))
        ELSE /\ ret.out.kind = "raise"
             /\ inp.system \in Range(ret.out.msg)

\* C5: add_lib applies the ignore set exactly when no -L value is present.
\* Without -L and with -l, the names appended to libraries are the -l values
\* not in the ignore set, in their order, and library_dirs is unchanged;
\* with -L, the -L values are appended to library_dirs and every -l value is
\* appended to libraries, ignored names included.
C5_IgnoreOnlyWithoutL ==
    op = "add_lib" =>
        /\ (inp.args.L.tag = "None" /\ inp.args.l.tag = "list") =>
              /\ c_ext.libraries =
                     prev.libraries \o NotIgnored(inp.args.l.v, inp.ignore)
              /\ c_ext.library_dirs = prev.library_dirs
        /\ inp.args.L.tag = "list" =>
              /\ c_ext.library_dirs = prev.library_dirs \o inp.args.L.v
              /\ c_ext.libraries = prev.libraries \o AsSeq(inp.args.l)

\* C5 witness: a second call with -L appended the ignored name R after a
\* first call without -L had left it out.
C5_Witness ==
    /\ op = "add_lib"
    /\ inp.args.L.tag = "list"
    /\ inp.args.l = PyList(<<LIB_R, LIB_P>>)
    /\ inp.ignore = DefaultIgnore
    /\ prev.libraries = <<LIB_P>>
    /\ c_ext.libraries = <<LIB_P, LIB_R, LIB_P>>
    /\ c_ext.library_dirs = <<LIBDIR>>

\* C6: whatever -L and -l values are present or absent, add_lib completes
\* without raising and appends the unknown tokens to extra_link_args, and
\* add_include appends the unknown tokens to extra_compile_args.
C6_UnknownAlwaysAppended ==
    /\ op = "add_lib" =>
          /\ ret.out.kind = "return"
          /\ c_ext.extra_link_args = prev.extra_link_args \o inp.unknown
    /\ op = "add_include" =>
          /\ ret.out.kind = "return"
          /\ c_ext.extra_compile_args = prev.extra_compile_args \o inp.unknown

\* C7: across every add_include and add_lib call each of the five sequences
\* has its value before the call as a prefix of its value after it, and
\* include_dirs is the concatenation, in call order, of the -I lists of the
\* add_include calls.
C7_AppendOnly ==
    /\ \A f \in Fields : IsPrefix(prev[f], c_ext[f])
    /\ c_ext.include_dirs = hist

\* C7 witness: two add_include calls with the same -I value left it twice
\* in include_dirs.
C7_Witness ==
    /\ op = "add_include"
    /\ ncalls = 2
    /\ prev.include_dirs = <<INC1>>
    /\ inp.args.I = PyList(<<INC1, INC2>>)
    /\ c_ext.include_dirs = <<INC1, INC1, INC2>>

\* C8: no line that starts with 'WARNING' is taken as a value: the home
\* r_home_from_subprocess returns does not start with the marker, and no
\* line _get_r_cmd_config returns starts with it.
C8_NoWarningLineAsValue ==
    /\ (op = "r_home_from_subprocess" /\ ret.out.kind = "return"
            /\ ret.out.value.tag = "str") =>
          ~StartsWith(ret.out.value.s, WARNING)
    /\ (op = "_get_r_cmd_config" /\ ret.out.kind = "return") =>
          \A i \in 1..Len(ret.out.value) : ~StartsWith(ret.out.value[i], WARNING)

\* The tokens shell-style splitting gives get_r_flags, or the exception
\* raised before there are any.
FlagTokens ==
    LET cfg == _get_r_cmd_config(inp.r_home, inp.flags, FALSE, inp.platform,
                                 inp.is64, inp.proc)
    IN  IF cfg.out.kind = "raise" THEN cfg.out
        ELSE shlex_split(Join(cfg.out.value, <<" ">>))

\* The values of the tokens that begin with prefix p, in order.
RECURSIVE ValuesOf(_, _)
ValuesOf(toks, p) ==
    IF toks = <<>> THEN <<>>
    ELSE IF StartsWith(Head(toks), p)
         THEN <<Str(SubSeq(Head(toks), 3, Len(Head(toks))))>> \o ValuesOf(Tail(toks), p)
         ELSE ValuesOf(Tail(toks), p)

Recognized(t) == \E p \in AppendOptions : StartsWith(t, p)

\* C9: for every token sequence, get_r_flags puts each token that begins
\* with -I, -L or -l into the list of that letter, in order, collects every
\* other token unchanged and in order as unknown, and neither raises nor
\* exits.
C9_TokensClassified ==
    (op = "get_r_flags" /\ FlagTokens.kind = "return") =>
        /\ ret.out.kind = "return"
        /\ AsSeq(ret.out.value.args.I) = ValuesOf(FlagTokens.value, <<"-", "I">>)
        /\ AsSeq(ret.out.value.args.L) = ValuesOf(FlagTokens.value, <<"-", "L">>)
        /\ AsSeq(ret.out.value.args.l) = ValuesOf(FlagTokens.value, <<"-", "l">>)
        /\ ret.out.value.unknown =
               SelectSeq(FlagTokens.value, LAMBDA t : ~Recognized(t))

\* The environment variable, the subprocess probe and, on win32, the
\* registry all yield nothing.
NoHomeAnywhere ==
    /\ ~Truthy(inp.env)
    /\ Falsy(r_home_from_subprocess(inp.proc, inp.platform))
    /\ inp.platform = "win32" => ~Truthy(r_home_from_registry(inp.reg))

\* C10: when no strategy yields a home, get_r_home returns absence without
\* raising, and the diagnostic run completes without a hard failure.
C10_MissingHomeTolerated ==
    /\ (op = "get_r_home" /\ NoHomeAnywhere) => Falsy(ret.out)
    /\ (op = "iter_info" /\ NoHomeAnywhere
            /\ r_version_from_subprocess(inp.vproc, inp.platform).kind = "return") =>
          ret.out.kind = "return"

=============================================================================
